---- MODULE Spec2Model ----
(***************************************************************************)
(* SQLiteRepository (src/operations_dashboard/storage/repository.py):      *)
(* a store of dashboard summaries (header rows) and their top products     *)
(* (line-item rows), written by save_summary and read back by              *)
(* fetch_recent_summaries and fetch_by_start_date.                         *)
(*                                                                         *)
(* The database file is modelled by its committed content `db`: the tables *)
(* that exist, each with its definition, its rows and its AUTOINCREMENT     *)
(* counter.  Every call opens its own connection; a connection that has     *)
(* written holds the engine's single write lock and                         *)
(* works on a private copy of the content (`txn`) until the `with` block   *)
(* commits it or rolls it back.  Reads run outside any transaction, one    *)
(* SELECT per step, against the committed content.  No call closes its     *)
(* connection: `with sqlite3.connect(...)` commits or rolls back and leaves *)
(* the connection open until the interpreter finalizes the object.         *)
(*                                                                         *)
(* TEXT values that are compared or ordered (the ISO dates) are sequences  *)
(* of character codes; REAL values are carried as integers.                *)
(***************************************************************************)
EXTENDS Integers, Sequences, FiniteSets, TLC

\* ------------------------------------------------------------------ bounds
\* AUTOINCREMENT never stops; the model stops starting saves at this key.
MaxSummaries == 2
\* Largest `limit` passed to fetch_recent_summaries.
MaxLimit == 3

\* ------------------------------------------------------------------ inputs
Callers == {1, 2}
SeqCallers == {1}

\* datetime.date values, <<year, month, day>>.
D1 == <<2024, 1, 1>>
D2 == <<2024, 1, 8>>
D3 == <<2024, 1, 15>>
Dates == {D1, D2}

PlusDays(d, n) == <<d[1], d[2], d[3] + n>>

\* ProductPerformance entries.  An Optional value is the empty set or a
\* singleton.
E1 == [asin |-> "P1", title |-> "first", revenue |-> 600, units |-> 6,
       sessions |-> 60, conversion_rate |-> 10, refunds |-> 1,
       buy_box_percentage |-> {90}]
E2 == [asin |-> "P2", title |-> "second", revenue |-> 400, units |-> 4,
       sessions |-> 40, conversion_rate |-> 10, refunds |-> 0,
       buy_box_percentage |-> {}]
E3 == [asin |-> "P1", title |-> "first again", revenue |-> 400, units |-> 5,
       sessions |-> 50, conversion_rate |-> 8, refunds |-> 2,
       buy_box_percentage |-> {80}]

\* top_products lists: none; one; two that need sorting; a repeated asin;
\* a tie on revenue; three with a repeated asin that need sorting.
TopProductLists == {<<>>, <<E1>>, <<E2, E1>>, <<E1, E3>>, <<E3, E2>>, <<E2, E3, E1>>}

Totals == [total_revenue |-> 1000, total_units |-> 50, total_sessions |-> 500,
           conversion_rate |-> 100, refund_rate |-> 20]

DashboardSummary(start, products) ==
    [start |-> start, end |-> PlusDays(start, 6), source_name |-> "reportA",
     totals |-> Totals, top_products |-> products]

Summaries == {DashboardSummary(d, l) : d \in Dates, l \in TopProductLists}
ConcSummaries == {DashboardSummary(d, l) : d \in Dates, l \in {<<E2, E1>>, <<E1, E3>>}}

\* datetime.utcnow() readings, second precision.
Timestamps == {"2024-02-01T00:00:00"}

Limits == (-1) .. MaxLimit
ConcLimits == {-1, 1}

\* ------------------------------------------------------------------- text
Max(a, b) == IF a >= b THEN a ELSE b
Min(a, b) == IF a <= b THEN a ELSE b

RECURSIVE Pow10(_)
Pow10(n) == IF n = 0 THEN 1 ELSE 10 * Pow10(n - 1)

\* The w decimal digits of n, zero padded, as character codes.
Digits(n, w) == [i \in 1 .. w |-> 48 + ((n \div Pow10(w - i)) % 10)]

\* date.isoformat(): YYYY-MM-DD.
isoformat(d) == Digits(d[1], 4) \o <<45>> \o Digits(d[2], 2) \o <<45>> \o Digits(d[3], 2)

\* SQLite's BINARY collation on TEXT: bytewise, a proper prefix sorts first.
TextLess(a, b) ==
    \/ \E i \in 1 .. Min(Len(a), Len(b)) :
          /\ \A j \in 1 .. (i - 1) : a[j] = b[j]
          /\ a[i] < b[i]
    \/ /\ Len(a) < Len(b)
       /\ \A j \in 1 .. Len(a) : a[j] = b[j]

QueryStarts == {isoformat(d) : d \in Dates \cup {D3}}
ConcQueryStarts == {isoformat(d) : d \in Dates}

\* ----------------------------------------------------------------- schema
SummariesTable ==
    [name |-> "summaries", autoincrement |-> TRUE, unique |-> {},
     references |-> {}]
ProductsTable ==
    [name |-> "products", autoincrement |-> TRUE,
     unique |-> {<<"summary_id", "asin">>},
     references |-> {[column |-> "summary_id", table |-> "summaries",
                      on_delete |-> "CASCADE"]}]

\* A database file without tables.
EmptyDb == [n \in {} |-> {}]

HasTable(d, n) == n \in DOMAIN d

\* CreateTableIfNotExists as DROP TABLE IF EXISTS followed by CREATE TABLE.
DropAndCreateTable(d, t) ==
    [n \in DOMAIN d \cup {t.name} |->
        IF n = t.name THEN [definition |-> t, rows |-> {}, seq |-> 0] ELSE d[n]]

\* CREATE TABLE IF NOT EXISTS: a table of that name is left as it is, rows
\* and all; otherwise the table is created empty.
CreateTableIfNotExists(d, t) ==
    IF HasTable(d, t.name) THEN d
    ELSE d @@ (t.name :> [definition |-> t, rows |-> {}, seq |-> 0])

\* executescript of lines 92-122.
CreateTables(d) ==
    CreateTableIfNotExists(CreateTableIfNotExists(d, SummariesTable), ProductsTable)

\* ------------------------------------------------------------------- rows

RowIds(rows) == {r.id : r \in rows}
MaxRowId(rows) == IF rows = {} THEN 0 ELSE CHOOSE m \in RowIds(rows) : \A i \in RowIds(rows) : i <= m

\* AutoId handing out the largest key again.
AutoIdNoIncrement(rows, seq) == Max(seq, MaxRowId(rows))

\* INTEGER PRIMARY KEY AUTOINCREMENT: one more than the largest key the
\* table ever held.
AutoId(rows, seq) == Max(seq, MaxRowId(rows)) + 1

SummaryRow(id, s, created_at) ==
    [id |-> id, start_date |-> isoformat(s.start), end_date |-> isoformat(s.end),
     source |-> s.source_name,
     total_revenue |-> s.totals.total_revenue, total_units |-> s.totals.total_units,
     total_sessions |-> s.totals.total_sessions,
     conversion_rate |-> s.totals.conversion_rate, refund_rate |-> s.totals.refund_rate,
     created_at |-> created_at]

\* INSERT INTO summaries ...; cursor.lastrowid is the new row's id.
InsertSummary(d, s, created_at) ==
    LET id == AutoId(d.summaries.rows, d.summaries.seq)
    IN  [d EXCEPT !.summaries.rows = @ \cup {SummaryRow(id, s, created_at)},
                  !.summaries.seq = id]

ProductRow(id, summary_id, e) ==
    [id |-> id, summary_id |-> summary_id, asin |-> e.asin, title |-> e.title,
     revenue |-> e.revenue, units |-> e.units, sessions |-> e.sessions,
     conversion_rate |-> e.conversion_rate, refunds |-> e.refunds,
     buy_box_percentage |-> e.buy_box_percentage]

\* InsertOrReplaceProduct as a plain INSERT into a table without the UNIQUE
\* constraint.
InsertProductKeepBoth(d, summary_id, e) ==
    LET id == AutoId(d.products.rows, d.products.seq)
    IN  [d EXCEPT !.products.rows = @ \cup {ProductRow(id, summary_id, e)},
                  !.products.seq = id]

\* InsertOrReplaceProduct with the constraint UNIQUE(asin).
InsertOrReplaceByAsin(d, summary_id, e) ==
    LET id   == AutoId(d.products.rows, d.products.seq)
        kept == {r \in d.products.rows : r.asin # e.asin}
    IN  [d EXCEPT !.products.rows = kept \cup {ProductRow(id, summary_id, e)},
                  !.products.seq = id]

\* INSERT OR REPLACE INTO products ...: rows that collide on
\* UNIQUE(summary_id, asin) are deleted, then the new row is inserted.
InsertOrReplaceProduct(d, summary_id, e) ==
    LET id   == AutoId(d.products.rows, d.products.seq)
        kept == {r \in d.products.rows : ~(r.summary_id = summary_id /\ r.asin = e.asin)}
    IN  [d EXCEPT !.products.rows = kept \cup {ProductRow(id, summary_id, e)},
                  !.products.seq = id]

\* execute in place of executemany: the first of the product_rows only.
ExecuteFirstOnly(d, summary_id, entries, n) ==
    IF n = 0 THEN d ELSE InsertOrReplaceProduct(d, summary_id, entries[1])

\* executemany over the first n product_rows.
RECURSIVE ExecuteMany(_, _, _, _)
ExecuteMany(d, summary_id, entries, n) ==
    IF n = 0 THEN d
    ELSE InsertOrReplaceProduct(ExecuteMany(d, summary_id, entries, n - 1),
                                summary_id, entries[n])

\* FOREIGN KEY(summary_id) REFERENCES summaries(id), with foreign_keys = ON.
ForeignKeyHolds(d, summary_id) == summary_id \in RowIds(d.summaries.rows)

\* DELETE FROM summaries WHERE id = ? that leaves the line-items alone.
DeleteWithoutCascade(d, id, foreign_keys) ==
    [d EXCEPT !.summaries.rows = {r \in @ : r.id # id}]

\* DELETE FROM summaries WHERE id = ?, and the action that line 119 declares
\* for the rows of products that reference the deleted row; the engine
\* takes it only with the foreign_keys pragma on (lines 91, 135).
DeleteSummary(d, id, foreign_keys) ==
    LET cascades == \E f \in d.products.definition.references :
                       /\ f.table = "summaries"
                       /\ f.on_delete = "CASCADE"
    IN  [d EXCEPT !.summaries.rows = {r \in @ : r.id # id},
                  !.products.rows = IF foreign_keys /\ cascades
                                    THEN {r \in @ : r.summary_id # id}
                                    ELSE @]

\* RecentBefore as ORDER BY start_date DESC, id: the lowest key first.
RecentBeforeIdAscending(x, y) ==
    \/ TextLess(y.start_date, x.start_date)
    \/ (x.start_date = y.start_date /\ x.id < y.id)

\* RecentBefore as ORDER BY id DESC alone.
RecentBeforeByIdOnly(x, y) == x.id > y.id

\* ORDER BY start_date DESC, id DESC.
RecentBefore(x, y) ==
    \/ TextLess(y.start_date, x.start_date)
    \/ (x.start_date = y.start_date /\ x.id > y.id)

RECURSIVE OrderRecent(_)
OrderRecent(rows) ==
    IF rows = {} THEN <<>>
    ELSE LET first == CHOOSE x \in rows : \A y \in rows \ {x} : RecentBefore(x, y)
         IN  <<first>> \o OrderRecent(rows \ {first})

\* LIMIT ?: a negative limit is no limit.
Limit(s, limit) == IF limit < 0 THEN s ELSE SubSeq(s, 1, Min(limit, Len(s)))

\* SELECT * FROM summaries ORDER BY start_date DESC, id DESC LIMIT ?
SelectRecent(d, limit) == Limit(OrderRecent(d.summaries.rows), limit)

\* OrderIdDesc as ORDER BY id ASC.
RECURSIVE OrderIdAsc(_)
OrderIdAsc(rows) ==
    IF rows = {} THEN <<>>
    ELSE LET first == CHOOSE x \in rows : \A y \in rows \ {x} : x.id < y.id
         IN  <<first>> \o OrderIdAsc(rows \ {first})

\* ORDER BY id DESC.
RECURSIVE OrderIdDesc(_)
OrderIdDesc(rows) ==
    IF rows = {} THEN <<>>
    ELSE LET first == CHOOSE x \in rows : \A y \in rows \ {x} : x.id > y.id
         IN  <<first>> \o OrderIdDesc(rows \ {first})

\* SelectByStartDate without its WHERE clause.
SelectByStartDateNoFilter(d, start) == Limit(OrderIdDesc(d.summaries.rows), 1)

\* SELECT * FROM summaries WHERE start_date = ? ORDER BY id DESC LIMIT 1
SelectByStartDate(d, start) ==
    Limit(OrderIdDesc({r \in d.summaries.rows : r.start_date = start}), 1)

StoredProduct(r) ==
    [asin |-> r.asin, title |-> r.title, revenue |-> r.revenue, units |-> r.units,
     sessions |-> r.sessions, conversion_rate |-> r.conversion_rate,
     refunds |-> r.refunds, buy_box_percentage |-> r.buy_box_percentage]

\* ORDER BY revenue DESC.
RevenueDescending(s) == \A i \in 1 .. (Len(s) - 1) : s[i].revenue >= s[i + 1].revenue

\* FetchProducts without its WHERE clause: the rows of every summary.
FetchProductsOfAll(d, summary_id) ==
    LET rows == d.products.rows
        n    == Cardinality(rows)
    IN  {[i \in 1 .. n |-> StoredProduct(f[i])] :
            f \in {g \in [1 .. n -> rows] :
                      /\ \A i, j \in 1 .. n : i # j => g[i] # g[j]
                      /\ RevenueDescending(g)}}

\* FetchProducts without its ORDER BY clause.
FetchProductsUnordered(d, summary_id) ==
    LET rows == {r \in d.products.rows : r.summary_id = summary_id}
        n    == Cardinality(rows)
    IN  {[i \in 1 .. n |-> StoredProduct(f[i])] :
            f \in {g \in [1 .. n -> rows] : \A i, j \in 1 .. n : i # j => g[i] # g[j]}}

\* _fetch_products: the rows of one summary, ORDER BY revenue DESC.  The
\* order of rows with equal revenue is not fixed by the query: every
\* ordering the engine may produce is a possible result.
FetchProducts(d, summary_id) ==
    LET rows == {r \in d.products.rows : r.summary_id = summary_id}
        n    == Cardinality(rows)
    IN  {[i \in 1 .. n |-> StoredProduct(f[i])] :
            f \in {g \in [1 .. n -> rows] :
                      /\ \A i, j \in 1 .. n : i # j => g[i] # g[j]
                      /\ RevenueDescending(g)}}

StoredSummary(row, products) ==
    [id |-> row.id, start |-> row.start_date, end |-> row.end_date,
     source |-> row.source,
     total_revenue |-> row.total_revenue, total_units |-> row.total_units,
     total_sessions |-> row.total_sessions,
     conversion_rate |-> row.conversion_rate, refund_rate |-> row.refund_rate,
     created_at |-> row.created_at, products |-> products]

\* ------------------------------------------------------------------ state
VARIABLES
    db,      \* the committed content of the database file
    txn,     \* connection -> its uncommitted copy of db (the write lock holder)
    pc,      \* caller -> where its current call stands
    local,   \* caller -> the arguments and local variables of its current call
    ret,     \* caller -> what its last call returned or raised
    log,     \* history: the committed saves, in commit order
    conn,    \* caller -> the connection its current or last call opened
    deleted  \* history: the header rows removed by other programs

vars == <<db, txn, pc, local, ret, log, conn, deleted>>

NoSummary == DashboardSummary(<<0, 0, 0>>, <<>>)

\* summary, created_at, summary_id: save_summary; limit, rows, summaries:
\* fetch_recent_summaries; start, rows: fetch_by_start_date.  began is
\* history: the number of saves committed when the save_summary call under
\* way started.
NoLocals ==
    [summary |-> NoSummary, created_at |-> "", summary_id |-> 0,
     limit |-> 0, start |-> <<>>, rows |-> <<>>, summaries |-> <<>>, began |-> 0]

Ret(op, kind, key, records) == [op |-> op, kind |-> kind, key |-> key, records |-> records]
NoRet == Ret("none", "none", 0, <<>>)

NoTxn == [c \in {} |-> EmptyDb]
LockFree == DOMAIN txn = {}

Init ==
    /\ db = EmptyDb
    /\ txn = NoTxn
    /\ pc = [p \in Callers |-> "idle"]
    /\ local = [p \in Callers |-> NoLocals]
    /\ ret = [p \in Callers |-> NoRet]
    /\ log = <<>>
    /\ conn = [p \in Callers |-> "closed"]
    /\ deleted = {}

SavePcs == {"save_header", "save_products", "save_commit", "save_rollback"}

\* The committed headers and the saves under way.
SavesStarted ==
    (IF HasTable(db, "summaries") THEN db.summaries.seq ELSE 0)
        + Cardinality({p \in Callers : pc[p] \in SavePcs})

\* -------------------------------------------------------------- initialize
\* Lines 90-122.
Initialize(p) ==
    /\ pc[p] = "idle"
    /\ db' = CreateTables(db)
    /\ local' = [local EXCEPT ![p] = NoLocals]
    /\ ret' = [ret EXCEPT ![p] = Ret("initialize", "ok", 0, <<>>)]
    /\ conn' = [conn EXCEPT ![p] = "open"]
    /\ UNCHANGED <<txn, pc, log, deleted>>

\* ------------------------------------------------------------ save_summary
\* Lines 133-135: the call reads the clock and opens its connection.
SaveBegin(p, s) ==
    /\ pc[p] = "idle"
    /\ SavesStarted < MaxSummaries
    /\ \E t \in Timestamps :
          local' = [local EXCEPT ![p] = [NoLocals EXCEPT !.summary = s, !.created_at = t,
                                                      !.began = Len(log)]]
    /\ pc' = [pc EXCEPT ![p] = "save_header"]
    /\ ret' = [ret EXCEPT ![p] = NoRet]
    /\ conn' = [conn EXCEPT ![p] = "open"]
    /\ UNCHANGED <<db, txn, log, deleted>>

\* InsertHeader on a connection in autocommit mode: the header row is
\* committed by the INSERT itself.
InsertHeaderAutocommit(p) ==
    /\ pc[p] = "save_header"
    /\ HasTable(db, "summaries")
    /\ LockFree
    /\ LET d == InsertSummary(db, local[p].summary, local[p].created_at)
       IN  /\ db' = d
           /\ txn' = (p :> d)
           /\ local' = [local EXCEPT ![p].summary_id = d.summaries.seq]
    /\ pc' = [pc EXCEPT ![p] = "save_products"]
    /\ UNCHANGED <<ret, log, conn, deleted>>

\* Lines 136-156: the INSERT opens the transaction, taking the write lock.
InsertHeader(p) ==
    /\ pc[p] = "save_header"
    /\ HasTable(db, "summaries")
    /\ LockFree
    /\ LET d == InsertSummary(db, local[p].summary, local[p].created_at)
       IN  /\ txn' = (p :> d)
           /\ local' = [local EXCEPT ![p].summary_id = d.summaries.seq]
    /\ pc' = [pc EXCEPT ![p] = "save_products"]
    /\ UNCHANGED <<db, ret, log, conn, deleted>>

\* Lines 136-155 raising: no such table, or the database is locked by
\* another connection's transaction for longer than the busy timeout.
InsertHeaderError(p) ==
    /\ pc[p] = "save_header"
    /\ ~HasTable(db, "summaries") \/ ~LockFree
    /\ pc' = [pc EXCEPT ![p] = "idle"]
    /\ ret' = [ret EXCEPT ![p] = Ret("save_summary", "error", 0, <<>>)]
    /\ local' = [local EXCEPT ![p].began = 0]
    /\ UNCHANGED <<db, txn, log, conn, deleted>>

\* InsertProducts with summary_id computed when the call started, as the
\* number of headers stored then plus one, in place of this connection's
\* cursor.lastrowid.
InsertProductsUnderGuessedKey(p) ==
    /\ pc[p] = "save_products"
    /\ Len(local[p].summary.top_products) > 0 => ForeignKeyHolds(txn[p], local[p].began + 1)
    /\ txn' = [txn EXCEPT ![p] = ExecuteMany(@, local[p].began + 1,
                                             local[p].summary.top_products,
                                             Len(local[p].summary.top_products))]
    /\ pc' = [pc EXCEPT ![p] = "save_commit"]
    /\ UNCHANGED <<db, local, ret, log, conn, deleted>>

\* Lines 158-180: executemany runs to the end.
InsertProducts(p) ==
    /\ pc[p] = "save_products"
    /\ Len(local[p].summary.top_products) > 0 => ForeignKeyHolds(txn[p], local[p].summary_id)
    /\ txn' = [txn EXCEPT ![p] = ExecuteMany(@, local[p].summary_id,
                                             local[p].summary.top_products,
                                             Len(local[p].summary.top_products))]
    /\ pc' = [pc EXCEPT ![p] = "save_commit"]
    /\ UNCHANGED <<db, local, ret, log, conn, deleted>>

\* Lines 172-180 raising at row i (a constraint violation, an I/O error):
\* the rows before i stay written in the open transaction.
InsertProductsError(p) ==
    /\ pc[p] = "save_products"
    /\ \E i \in 1 .. Len(local[p].summary.top_products) :
          txn' = [txn EXCEPT ![p] = ExecuteMany(@, local[p].summary_id,
                                                local[p].summary.top_products, i - 1)]
    /\ pc' = [pc EXCEPT ![p] = "save_rollback"]
    /\ UNCHANGED <<db, local, ret, log, conn, deleted>>

\* Line 134, leaving the `with` block normally: commit; line 181.
Commit(p) ==
    /\ pc[p] = "save_commit"
    /\ db' = txn[p]
    /\ txn' = NoTxn
    /\ log' = Append(log, [id |-> local[p].summary_id, summary |-> local[p].summary,
                           created_at |-> local[p].created_at])
    /\ pc' = [pc EXCEPT ![p] = "idle"]
    /\ ret' = [ret EXCEPT ![p] = Ret("save_summary", "key", local[p].summary_id, <<>>)]
    /\ local' = [local EXCEPT ![p].began = 0]
    /\ UNCHANGED <<conn, deleted>>

\* Rollback as a connection that commits what it wrote before the exception.
RollbackKeepsWrites(p) ==
    /\ pc[p] = "save_rollback"
    /\ db' = txn[p]
    /\ txn' = NoTxn
    /\ pc' = [pc EXCEPT ![p] = "idle"]
    /\ ret' = [ret EXCEPT ![p] = Ret("save_summary", "error", 0, <<>>)]
    /\ local' = [local EXCEPT ![p].began = 0]
    /\ UNCHANGED <<log, conn, deleted>>

\* Rollback of a header INSERT whose line-items were written by a connection
\* of their own in autocommit mode: the line-items stay.
RollbackKeepsLineItems(p) ==
    /\ pc[p] = "save_rollback"
    /\ db' = [db EXCEPT !.products = txn[p].products]
    /\ txn' = NoTxn
    /\ pc' = [pc EXCEPT ![p] = "idle"]
    /\ ret' = [ret EXCEPT ![p] = Ret("save_summary", "error", 0, <<>>)]
    /\ local' = [local EXCEPT ![p].began = 0]
    /\ UNCHANGED <<log, conn, deleted>>

\* Line 134, leaving the `with` block on an exception: rollback, re-raise.
Rollback(p) ==
    /\ pc[p] = "save_rollback"
    /\ txn' = NoTxn
    /\ pc' = [pc EXCEPT ![p] = "idle"]
    /\ ret' = [ret EXCEPT ![p] = Ret("save_summary", "error", 0, <<>>)]
    /\ local' = [local EXCEPT ![p].began = 0]
    /\ UNCHANGED <<db, log, conn, deleted>>

\* -------------------------------------------------- fetch_recent_summaries
\* Lines 192-204: the header SELECT, read to its end.
FetchRecentSelect(p, l) ==
    /\ pc[p] = "idle"
    /\ HasTable(db, "summaries")
    /\ local' = [local EXCEPT ![p] = [NoLocals EXCEPT !.limit = l,
                                                      !.rows = SelectRecent(db, l)]]
    /\ pc' = [pc EXCEPT ![p] = "recent_products"]
    /\ ret' = [ret EXCEPT ![p] = NoRet]
    /\ conn' = [conn EXCEPT ![p] = "open"]
    /\ UNCHANGED <<db, txn, log, deleted>>

\* Lines 205-221: one turn of the loop, one products SELECT.
FetchRecentProducts(p) ==
    /\ pc[p] = "recent_products"
    /\ Len(local[p].summaries) < Len(local[p].rows)
    /\ LET row == local[p].rows[Len(local[p].summaries) + 1]
       IN  \E products \in FetchProducts(db, row.id) :
              local' = [local EXCEPT ![p].summaries = Append(@, StoredSummary(row, products))]
    /\ UNCHANGED <<db, txn, pc, ret, log, conn, deleted>>

\* Line 222 as `return summaries or None`.
FetchRecentReturnNoneIfEmpty(p) ==
    /\ pc[p] = "recent_products"
    /\ Len(local[p].summaries) = Len(local[p].rows)
    /\ pc' = [pc EXCEPT ![p] = "idle"]
    /\ ret' = [ret EXCEPT ![p] =
                  IF local[p].summaries = <<>>
                  THEN Ret("fetch_recent_summaries", "None", 0, <<>>)
                  ELSE Ret("fetch_recent_summaries", "list", 0, local[p].summaries)]
    /\ UNCHANGED <<db, txn, local, log, conn, deleted>>

\* Line 222.
FetchRecentReturn(p) ==
    /\ pc[p] = "recent_products"
    /\ Len(local[p].summaries) = Len(local[p].rows)
    /\ pc' = [pc EXCEPT ![p] = "idle"]
    /\ ret' = [ret EXCEPT ![p] = Ret("fetch_recent_summaries", "list", 0, local[p].summaries)]
    /\ UNCHANGED <<db, txn, local, log, conn, deleted>>

\* Lines 194-203 raising: no such table.
FetchRecentError(p) ==
    /\ pc[p] = "idle"
    /\ ~HasTable(db, "summaries")
    /\ local' = [local EXCEPT ![p] = NoLocals]
    /\ ret' = [ret EXCEPT ![p] = Ret("fetch_recent_summaries", "error", 0, <<>>)]
    /\ conn' = [conn EXCEPT ![p] = "open"]
    /\ UNCHANGED <<db, txn, pc, log, deleted>>

\* ----------------------------------------------------- fetch_by_start_date
\* Lines 233-245: the header SELECT; no row: return None.
FetchByStartDateSelect(p, st) ==
    /\ pc[p] = "idle"
    /\ HasTable(db, "summaries")
    /\ LET selected == SelectByStartDate(db, st)
       IN  /\ local' = [local EXCEPT ![p] = [NoLocals EXCEPT !.start = st, !.rows = selected]]
           /\ IF selected = <<>>
              THEN /\ pc' = pc
                   /\ ret' = [ret EXCEPT ![p] = Ret("fetch_by_start_date", "None", 0, <<>>)]
              ELSE /\ pc' = [pc EXCEPT ![p] = "by_start_date_products"]
                   /\ ret' = [ret EXCEPT ![p] = NoRet]
    /\ conn' = [conn EXCEPT ![p] = "open"]
    /\ UNCHANGED <<db, txn, log, deleted>>

\* Lines 246-259: the products SELECT and the record returned.
FetchByStartDateProducts(p) ==
    /\ pc[p] = "by_start_date_products"
    /\ LET row == local[p].rows[1]
       IN  \E products \in FetchProducts(db, row.id) :
              ret' = [ret EXCEPT ![p] = Ret("fetch_by_start_date", "record", 0,
                                            <<StoredSummary(row, products)>>)]
    /\ pc' = [pc EXCEPT ![p] = "idle"]
    /\ UNCHANGED <<db, txn, local, log, conn, deleted>>

\* Lines 235-243 raising: no such table.
FetchByStartDateError(p) ==
    /\ pc[p] = "idle"
    /\ ~HasTable(db, "summaries")
    /\ local' = [local EXCEPT ![p] = NoLocals]
    /\ ret' = [ret EXCEPT ![p] = Ret("fetch_by_start_date", "error", 0, <<>>)]
    /\ conn' = [conn EXCEPT ![p] = "open"]
    /\ UNCHANGED <<db, txn, pc, log, deleted>>

\* ------------------------------------------------------------ finalization
\* Lines 90, 134, 192, 233: the `with` block ends the transaction and leaves
\* the connection open; the interpreter closes it when it finalizes the
\* unreferenced object, at a time of its own choosing after the call.
Collect(p) ==
    /\ pc[p] = "idle"
    /\ conn[p] = "open"
    /\ conn' = [conn EXCEPT ![p] = "closed"]
    /\ UNCHANGED <<db, txn, pc, local, ret, log, deleted>>

\* ------------------------------------------------------- deletion from outside
\* Line 119, lines 91 and 135: the repository deletes nothing; another program
\* that opens the database file may run DELETE FROM summaries WHERE id = ?.
\* The engine applies ON DELETE CASCADE on a connection whose foreign_keys
\* pragma is on; the pragma is off on every connection that did not turn it on.
DeleteHeader(id, foreign_keys) ==
    /\ HasTable(db, "summaries")
    /\ HasTable(db, "products")
    /\ LockFree
    /\ id \in RowIds(db.summaries.rows)
    /\ db' = DeleteSummary(db, id, foreign_keys)
    /\ deleted' = deleted \cup {[id |-> id, foreign_keys |-> foreign_keys]}
    /\ UNCHANGED <<txn, pc, local, ret, log, conn>>

\* ---------------------------------------------------------- specifications
\* One caller: every call returns before the next one starts.
Next ==
    \E p \in SeqCallers :
        \/ Initialize(p)
        \/ \E s \in Summaries : SaveBegin(p, s)
        \/ InsertHeader(p)
        \/ InsertHeaderError(p)
        \/ InsertProducts(p)
        \/ InsertProductsError(p)
        \/ Commit(p)
        \/ Rollback(p)
        \/ \E l \in Limits : FetchRecentSelect(p, l)
        \/ FetchRecentProducts(p)
        \/ FetchRecentReturn(p)
        \/ FetchRecentError(p)
        \/ \E st \in QueryStarts : FetchByStartDateSelect(p, st)
        \/ FetchByStartDateProducts(p)
        \/ FetchByStartDateError(p)
        \/ Collect(p)

Spec == Init /\ [][Next]_vars

\* Two callers (threads or processes on the same database file) whose calls
\* interleave statement by statement.
NextConc ==
    \E p \in Callers :
        \/ Initialize(p)
        \/ \E s \in ConcSummaries : SaveBegin(p, s)
        \/ InsertHeader(p)
        \/ InsertHeaderError(p)
        \/ InsertProducts(p)
        \/ InsertProductsError(p)
        \/ Commit(p)
        \/ Rollback(p)
        \/ \E l \in ConcLimits : FetchRecentSelect(p, l)
        \/ FetchRecentProducts(p)
        \/ FetchRecentReturn(p)
        \/ FetchRecentError(p)
        \/ \E st \in ConcQueryStarts : FetchByStartDateSelect(p, st)
        \/ FetchByStartDateProducts(p)
        \/ FetchByStartDateError(p)

SpecConc == Init /\ [][NextConc]_vars

\* One caller that initializes and saves, and another program that deletes
\* header rows through a connection of its own.
NextDelete ==
    \/ \E p \in SeqCallers :
          \/ Initialize(p)
          \/ \E s \in Summaries : SaveBegin(p, s)
          \/ InsertHeader(p)
          \/ InsertHeaderError(p)
          \/ InsertProducts(p)
          \/ InsertProductsError(p)
          \/ Commit(p)
          \/ Rollback(p)
    \/ \E id \in 1 .. MaxSummaries, foreign_keys \in BOOLEAN : DeleteHeader(id, foreign_keys)

SpecDelete == Init /\ [][NextDelete]_vars

\* ------------------------------------------------------------ observations
Range(s) == {s[i] : i \in 1 .. Len(s)}

\* The committed header rows and line-item rows.
Headers(d) == IF HasTable(d, "summaries") THEN d.summaries.rows ELSE {}
Items(d) == IF HasTable(d, "products") THEN d.products.rows ELSE {}
ItemsOf(d, k) == {StoredProduct(r) : r \in {x \in Items(d) : x.summary_id = k}}

\* The product entries left by replace-on-collision: for each asin, the last
\* entry that carries it.
LastWins(entries) ==
    {entries[j] : j \in {i \in 1 .. Len(entries) :
                            \A k \in (i + 1) .. Len(entries) : entries[k].asin # entries[i].asin}}

IsPermutation(a, b) ==
    /\ Len(a) = Len(b)
    /\ \E f \in [1 .. Len(a) -> 1 .. Len(a)] :
          /\ \A i, j \in 1 .. Len(a) : i # j => f[i] # f[j]
          /\ \A i \in 1 .. Len(a) : a[i] = b[f[i]]

\* The step is not one of another caller.
NoOtherCaller(p) ==
    \A q \in Callers \ {p} : <<pc[q], ret[q], local[q]>> = <<pc'[q], ret'[q], local'[q]>>

\* The call of caller p returns in this step.
SaveFails(p) == pc[p] \in SavePcs /\ ret'[p].kind = "error"
SaveSucceeds(p) == pc[p] \in SavePcs /\ ret'[p].kind = "key"

\* ----------------------------------------------------------------------- C1
\* What the commit of caller p's save adds to the store.
C1_Committed(p) ==
    LET k == ret'[p].key
    IN  /\ k \notin RowIds(Headers(db))
        /\ Headers(db') = Headers(db) \cup {SummaryRow(k, local[p].summary, local[p].created_at)}
        /\ {r \in Items(db') : r.summary_id # k} = Items(db)
        /\ ItemsOf(db', k) = LastWins(local[p].summary.top_products)

\* C1: save_summary is all-or-nothing.  A call that fails leaves the
\* committed store as it was and no transaction of its own open; a call that
\* succeeds adds, in the one step of its commit, its header row and all its
\* line-items and nothing else; the store changes its rows in no other step.
C1_SaveAllOrNothing ==
    [][/\ \A p \in Callers :
            /\ SaveFails(p) => (db' = db /\ p \notin DOMAIN txn')
            /\ SaveSucceeds(p) => C1_Committed(p)
       /\ (Headers(db') # Headers(db) \/ Items(db') # Items(db))
            => \E p \in Callers : SaveSucceeds(p)]_vars

\* A save that failed after its header row had been inserted.
C1_Witness ==
    \E p \in Callers :
        /\ ret[p] = Ret("save_summary", "error", 0, <<>>)
        /\ local[p].summary_id # 0
        /\ Len(local[p].summary.top_products) >= 2
        /\ local[p].summary_id \notin RowIds(Headers(db))

\* ----------------------------------------------------------------------- C2
\* Record r carries all the line-items of the committed save of its key.
RecordComplete(r) ==
    \E i \in 1 .. Len(log) :
        /\ log[i].id = r.id
        /\ Range(r.products) = LastWins(log[i].summary.top_products)
        /\ Len(r.products) = Cardinality(LastWins(log[i].summary.top_products))

C2_RecordsComplete ==
    \A p \in Callers :
        \A r \in Range(ret[p].records) \cup Range(local[p].summaries) : RecordComplete(r)

C2_SelectSeesCommitted ==
    \A p \in Callers :
        (pc[p] = "idle" /\ pc'[p] = "recent_products" /\ local'[p].limit < 0)
            => {r.id : r \in Range(local'[p].rows)} = {log[i].id : i \in 1 .. Len(log)}

\* C2: under any interleaving of saves and reads, every record a read has
\* built or returned carries the complete set of line-items of the save that
\* wrote its header, and a header SELECT without limit sees every committed
\* header.
C2_ReadsNeverPartial == []C2_RecordsComplete /\ [][C2_SelectSeesCommitted]_vars

\* A read that is building its records while another caller's transaction
\* holds a header and its line-items uncommitted.
C2_Witness ==
    \E p, q \in Callers :
        /\ p # q
        /\ pc[q] = "save_commit"
        /\ Len(local[q].summary.top_products) > 0
        /\ pc[p] = "recent_products"
        /\ Len(local[p].summaries) >= 1

\* ----------------------------------------------------------------------- C3
ByStartDateRecord(p) == ret[p].op = "fetch_by_start_date" /\ ret[p].kind = "record"

\* The committed saves for start date st (as text) with no later save for it.
LatestSaveFor(st) ==
    {i \in 1 .. Len(log) :
        /\ isoformat(log[i].summary.start) = st
        /\ \A j \in (i + 1) .. Len(log) : isoformat(log[j].summary.start) # st}

HeaderMatches(r, e) ==
    /\ r.id = e.id
    /\ r.start = isoformat(e.summary.start)
    /\ r.end = isoformat(e.summary.end)
    /\ r.source = e.summary.source_name
    /\ r.total_revenue = e.summary.totals.total_revenue
    /\ r.total_units = e.summary.totals.total_units
    /\ r.total_sessions = e.summary.totals.total_sessions
    /\ r.conversion_rate = e.summary.totals.conversion_rate
    /\ r.refund_rate = e.summary.totals.refund_rate

\* C3 as stated: the record fetched by S's start date has the key the save
\* returned, S's header fields, and line-items that are exactly S's product
\* entries, by revenue descending.
C3_RoundTripAllEntries ==
    \A p \in Callers :
        ByStartDateRecord(p) =>
            \E i \in LatestSaveFor(local[p].start) :
                LET r == ret[p].records[1]
                IN  /\ HeaderMatches(r, log[i])
                    /\ IsPermutation(r.products, log[i].summary.top_products)
                    /\ RevenueDescending(r.products)

\* C3 amended: the line-items are S's product entries after
\* replace-on-collision (for each product identifier the last entry of S that
\* carries it), by revenue descending.
C3_RoundTrip ==
    \A p \in Callers :
        ByStartDateRecord(p) =>
            \E i \in LatestSaveFor(local[p].start) :
                LET r == ret[p].records[1]
                IN  /\ HeaderMatches(r, log[i])
                    /\ Range(r.products) = LastWins(log[i].summary.top_products)
                    /\ Len(r.products) = Cardinality(LastWins(log[i].summary.top_products))
                    /\ RevenueDescending(r.products)

\* A summary saved with entries P2, P1, P1 comes back as P1 (its last
\* entry), P2.
C3_Witness ==
    \E p \in Callers :
        /\ ByStartDateRecord(p)
        /\ \E i \in LatestSaveFor(local[p].start) : log[i].summary.top_products = <<E2, E3, E1>>
        /\ ret[p].records[1].products = <<E1, E2>>

\* ----------------------------------------------------------------------- C4
\* C4: the record fetch_by_start_date(d) returns has start date d and, among
\* the stored headers with start date d, the highest key; that header is the
\* one written by the last save for d.
C4_LatestForStartDate ==
    \A p \in Callers :
        ByStartDateRecord(p) =>
            LET r    == ret[p].records[1]
                same == {h \in Headers(db) : h.start_date = local[p].start}
            IN  /\ r.start = local[p].start
                /\ r.id \in RowIds(same)
                /\ \A h \in same : h.id <= r.id
                /\ \E i \in LatestSaveFor(local[p].start) : log[i].id = r.id

\* A fetch by a start date that two stored headers share.
C4_Witness ==
    \E p \in Callers :
        /\ ByStartDateRecord(p)
        /\ Cardinality({h \in Headers(db) : h.start_date = local[p].start}) >= 2

\* ----------------------------------------------------------------------- C5
RecentList(p) == ret[p].op = "fetch_recent_summaries" /\ ret[p].kind = "list"

\* The window start date (a date, not its text) saved under key k.
StartOf(k) == (CHOOSE i \in 1 .. Len(log) : log[i].id = k)
DateOfKey(k) == log[StartOf(k)].summary.start

DateLess(a, b) ==
    \/ a[1] < b[1]
    \/ (a[1] = b[1] /\ a[2] < b[2])
    \/ (a[1] = b[1] /\ a[2] = b[2] /\ a[3] < b[3])

\* Key j ranks before key k: later window start, or the same and higher key.
RanksBefore(j, k) ==
    \/ DateLess(DateOfKey(k), DateOfKey(j))
    \/ (DateOfKey(k) = DateOfKey(j) /\ j > k)

\* C5: for a positive limit and n stored headers, fetch_recent_summaries
\* returns min(limit, n) records of distinct stored headers, each ranking
\* before the next, and every header left out ranks after every one returned.
C5_RecentOrderAndLimit ==
    \A p \in Callers :
        (RecentList(p) /\ local[p].limit > 0) =>
            LET recs == ret[p].records
                ids  == {recs[i].id : i \in 1 .. Len(recs)}
            IN  /\ Len(recs) = Min(local[p].limit, Cardinality(Headers(db)))
                /\ ids \subseteq RowIds(Headers(db))
                /\ \A i \in 1 .. Len(recs) : recs[i].start = isoformat(DateOfKey(recs[i].id))
                /\ \A i, j \in 1 .. Len(recs) : i < j => RanksBefore(recs[i].id, recs[j].id)
                /\ \A k \in RowIds(Headers(db)) \ ids : \A j \in ids : RanksBefore(j, k)

\* fetch_recent_summaries(1) on two headers returns the first written one,
\* whose window starts later.
C5_Witness ==
    \E p \in Callers :
        /\ RecentList(p)
        /\ local[p].limit = 1
        /\ Cardinality(Headers(db)) = 2
        /\ Len(ret[p].records) = 1
        /\ ret[p].records[1].id = 1

\* ----------------------------------------------------------------------- C6
\* A step of caller p's fetch_by_start_date call.
ByStartDateStep(p) ==
    /\ NoOtherCaller(p)
    /\ \/ pc[p] = "by_start_date_products"
       \/ pc'[p] = "by_start_date_products"
       \/ /\ pc[p] = "idle" /\ pc'[p] = "idle"
          /\ ret'[p].op = "fetch_by_start_date"
          /\ <<ret[p], local[p]>> # <<ret'[p], local'[p]>>

C6_NoneIffNoHeader ==
    \A p \in Callers :
        (ret[p].op = "fetch_by_start_date" /\ HasTable(db, "summaries")) =>
            /\ ret[p].kind \in {"None", "record"}
            /\ ret[p].kind = "None" <=> ~\E h \in Headers(db) : h.start_date = local[p].start
            /\ ret[p].kind = "None" => (ret[p].records = <<>> /\ ret[p].key = 0)

\* C6: on an initialised store fetch_by_start_date(d) returns None exactly
\* when no stored header has start date d, then raises nothing and returns no
\* record; the call leaves the store unchanged.
C6_NotFound ==
    /\ []C6_NoneIffNoHeader
    /\ [][\A p \in Callers : ByStartDateStep(p) => (db' = db /\ txn' = txn)]_vars

\* None for a start date no header has, on a store that holds headers.
C6_Witness ==
    \E p \in Callers :
        /\ ret[p].op = "fetch_by_start_date"
        /\ ret[p].kind = "None"
        /\ Headers(db) # {}

\* ----------------------------------------------------------------------- C7
\* The commit of caller p's save and the key it returns.
C7_Step(p) ==
    LET k == ret'[p].key
    IN  /\ k \notin RowIds(Headers(db))
        /\ Headers(db) \subseteq Headers(db')
        /\ Cardinality(Headers(db')) = Cardinality(Headers(db)) + 1
        /\ RowIds(Headers(db') \ Headers(db)) = {k}
        /\ \A i \in 1 .. Len(log) : log[i].id < k
        /\ \A a, b \in Headers(db') : a.id = b.id => a = b

\* C7: a successful save adds exactly one header row and returns its key; the
\* key is new, greater than every key returned before, and the headers
\* already stored keep their keys and stay distinct by key.
C7_NewIncreasingKey == [][\A p \in Callers : SaveSucceeds(p) => C7_Step(p)]_vars

\* A second successful save.
C7_Witness ==
    \E p \in Callers :
        /\ ret[p].op = "save_summary"
        /\ ret[p].kind = "key"
        /\ Len(log) = 2
        /\ ret[p].key = log[2].id

\* ----------------------------------------------------------------------- C8
UniquePairs(d) ==
    \A a, b \in Items(d) : (a.summary_id = b.summary_id /\ a.asin = b.asin) => a = b

\* The last entry of entries with the asin of entries[j].
LastWith(entries, j) ==
    entries[CHOOSE i \in j .. Len(entries) :
                /\ entries[i].asin = entries[j].asin
                /\ \A k \in (i + 1) .. Len(entries) : entries[k].asin # entries[j].asin]

\* C8: no two line-items share (summary key, product identifier), committed
\* or not; every product entry of a committed save, repeated identifier or
\* not, has exactly one line-item, with the values of the last entry written
\* for that identifier.
C8_ReplaceOnCollision ==
    /\ UniquePairs(db)
    /\ \A c \in DOMAIN txn : UniquePairs(txn[c])
    /\ \A i \in 1 .. Len(log) :
          LET entries == log[i].summary.top_products
          IN  \A j \in 1 .. Len(entries) :
                 LET found == {r \in Items(db) : r.summary_id = log[i].id
                                                  /\ r.asin = entries[j].asin}
                 IN  /\ Cardinality(found) = 1
                     /\ \A r \in found : StoredProduct(r) = LastWith(entries, j)

\* A committed save whose entries P1, P1 left the one line-item of the
\* second.
C8_Witness ==
    \E i \in 1 .. Len(log) :
        /\ log[i].summary.top_products = <<E1, E3>>
        /\ ItemsOf(db, log[i].id) = {E3}

\* ----------------------------------------------------------------------- C9
FetchOps == {"fetch_recent_summaries", "fetch_by_start_date"}

\* A step of one of caller p's fetch calls.
FetchStep(p) ==
    /\ NoOtherCaller(p)
    /\ \/ pc[p] \in {"recent_products", "by_start_date_products"}
       \/ pc'[p] \in {"recent_products", "by_start_date_products"}
       \/ /\ pc[p] = "idle" /\ pc'[p] = "idle"
          /\ ret'[p].op \in FetchOps
          /\ <<ret[p], local[p]>> # <<ret'[p], local'[p]>>

\* C9: in every step every committed header stays, with the same row and the
\* same line-item rows; the steps of fetches and of failing saves change
\* nothing in the store.
C9_AppendOnly ==
    [][/\ Headers(db) \subseteq Headers(db')
       /\ \A h \in Headers(db) :
             {r \in Items(db') : r.summary_id = h.id} = {r \in Items(db) : r.summary_id = h.id}
       /\ \A p \in Callers : (FetchStep(p) \/ SaveFails(p)) => db' = db]_vars

\* Two committed headers, both owning line-items for P1, read after the
\* second save.
C9_Witness ==
    \E p \in Callers :
        /\ RecentList(p)
        /\ Len(ret[p].records) = 2
        /\ \A i \in 1 .. 2 : \E x \in Range(ret[p].records[i].products) : x.asin = "P1"

\* ---------------------------------------------------------------------- C10
InitializeStep(p) ==
    /\ pc[p] = "idle" /\ pc'[p] = "idle"
    /\ ret'[p].op = "initialize"
    /\ NoOtherCaller(p)
    /\ <<ret[p], local[p], db>> # <<ret'[p], local'[p], db'>>

\* C10: initialize raises nothing, leaves every table that exists as it is
\* (definition, rows, counter), and ends in a state that a further call
\* leaves unchanged.
C10_InitializeIdempotent ==
    [][\A p \in Callers :
          InitializeStep(p) =>
              /\ ret'[p].kind = "ok"
              /\ \A n \in DOMAIN db : n \in DOMAIN db' /\ db'[n] = db[n]
              /\ DOMAIN db' = {"summaries", "products"}
              /\ CreateTables(db') = db']_vars

\* initialize called on a store that holds rows.
C10_Witness ==
    \E p \in Callers :
        /\ ret[p].op = "initialize"
        /\ Headers(db) # {}
        /\ Items(db) # {}

\* ---------------------------------------------------------------------- C11
\* The claim as stated: whatever connection removed a header row, no line-item
\* of that header is left in the store.
C11_CascadeOnAnyDelete ==
    \A x \in deleted : \A r \in Items(db) : r.summary_id # x.id

\* The step removes header row x.id and exactly the line-items it owns.
C11_Cascaded(x) ==
    /\ Headers(db') = {r \in Headers(db) : r.id # x.id}
    /\ Items(db') = {r \in Items(db) : r.summary_id # x.id}

\* C11: cascading delete.  Whenever a header row is removed through a
\* connection that has the foreign_keys pragma on, all line-items owned by that
\* header are removed in the same step and no other row is; no line-item
\* referencing the removed header is in the store afterwards.
C11_CascadeWithForeignKeysOn ==
    /\ [](\A x \in deleted :
            x.foreign_keys => \A r \in Items(db) : r.summary_id # x.id)
    /\ [][\A x \in deleted' \ deleted : x.foreign_keys => C11_Cascaded(x)]_vars

\* A header saved with line-items was removed with the pragma on, while
\* another header keeps its own.
C11_Witness ==
    \E x \in deleted, i \in 1 .. Len(log) :
        /\ x.foreign_keys
        /\ log[i].id = x.id
        /\ log[i].summary.top_products # <<>>
        /\ Items(db) # {}
        /\ \A r \in Items(db) : r.summary_id \in RowIds(Headers(db))

\* ---------------------------------------------------------------------- C12
\* C12: every store operation releases the connection it opened on every exit
\* path before it returns: once a call of caller p has returned or raised,
\* the connection that call opened is closed.
C12_ConnectionReleased ==
    \A p \in Callers : pc[p] = "idle" /\ ret[p] # NoRet => conn[p] = "closed"

\* ---------------------------------------------------------------------- C13
\* C13: on an initialized store that holds no header rows,
\* fetch_recent_summaries returns an empty sequence and raises no error, for
\* every limit (negative, zero, positive): its header SELECT yields no row,
\* and what it returned is the empty list.
C13_EmptyStoreEmptyList ==
    \A p \in Callers :
        HasTable(db, "summaries") /\ Headers(db) = {} =>
            /\ pc[p] = "recent_products" =>
                   local[p].rows = <<>> /\ ENABLED FetchRecentReturn(p)
            /\ ret[p].op = "fetch_recent_summaries" =>
                   ret[p].kind = "list" /\ ret[p].records = <<>>

\* The call with `limit` -1 (no limit) returned the empty list from a store
\* with tables and no header row.
C13_Witness ==
    \E p \in Callers :
        /\ HasTable(db, "summaries")
        /\ Headers(db) = {}
        /\ pc[p] = "idle"
        /\ ret[p] = Ret("fetch_recent_summaries", "list", 0, <<>>)
        /\ local[p].limit = -1

\* ---------------------------------------------------------------------- C14
\* The line-item rows that reference header k.
OwnedRows(d, k) == {r \in Items(d) : r.summary_id = k}
Asins(entries) == {entries[j].asin : j \in 1 .. Len(entries)}

\* The claim as stated: after a successful save_summary of a summary with k
\* product entries, the header of the returned key owns exactly k line-items.
C14_OwnsOnePerEntry ==
    \A p \in Callers :
        pc[p] = "idle" /\ ret[p].kind = "key" =>
            Cardinality(OwnedRows(db, ret[p].key)) = Len(local[p].summary.top_products)

\* C14: after a successful save_summary of a summary with k product entries,
\* the returned key is that of a stored header, and this header owns exactly
\* one line-item per distinct asin among the entries, each holding the last
\* entry with that asin: k line-items when the k entries have k distinct
\* asins, fewer when an asin repeats.
C14_OwnsOnePerAsin ==
    \A p \in Callers :
        pc[p] = "idle" /\ ret[p].kind = "key" =>
            LET entries == local[p].summary.top_products
                own == OwnedRows(db, ret[p].key)
            IN  /\ ret[p].key \in RowIds(Headers(db))
                /\ Cardinality(own) = Cardinality(Asins(entries))
                /\ {r.asin : r \in own} = Asins(entries)
                /\ {StoredProduct(r) : r \in own} = LastWins(entries)
                /\ Cardinality(Asins(entries)) = Len(entries) =>
                       Cardinality(own) = Len(entries)

\* A save of three entries, two of them with the same asin, returned a key
\* under which two line-items are stored.
C14_Witness ==
    \E p \in Callers :
        /\ pc[p] = "idle"
        /\ ret[p].kind = "key"
        /\ local[p].summary.top_products = <<E2, E3, E1>>
        /\ Cardinality(OwnedRows(db, ret[p].key)) = 2

\* ---------------------------------------------------------------------- C15
\* C15: every record returned by fetch_recent_summaries or
\* fetch_by_start_date carries exactly the line-items owned by that record's
\* header, each once: all of them, none of another header, in order of
\* non-increasing revenue.
C15_OwnLineItemsByRevenue ==
    \A p \in Callers :
        ret[p].kind \in {"list", "record"} =>
            \A r \in Range(ret[p].records) :
                /\ r.id \in RowIds(Headers(db))
                /\ Range(r.products) = {StoredProduct(x) : x \in OwnedRows(db, r.id)}
                /\ Len(r.products) = Cardinality(OwnedRows(db, r.id))
                /\ RevenueDescending(r.products)

\* fetch_recent_summaries returned two records whose headers own different
\* line-items, one of them two with different revenues.
C15_Witness ==
    \E p \in Callers :
        /\ ret[p].kind = "list"
        /\ Len(ret[p].records) = 2
        /\ Len(ret[p].records[1].products) = 2
        /\ ret[p].records[1].products[1].revenue > ret[p].records[1].products[2].revenue
        /\ ret[p].records[2].products # <<>>
        /\ Range(ret[p].records[1].products) # Range(ret[p].records[2].products)

\* ---------------------------------------------------------------------- C16
\* The saves committed while the save_summary call of caller p was under way.
OverlappingSaves(p) == {i \in 1 .. Len(log) : i > local[p].began}

\* The header of key k is the row of summary s, and owns the line-items of s.
OwnHeaderAndItems(d, k, s, created_at) ==
    /\ SummaryRow(k, s, created_at) \in Headers(d)
    /\ ItemsOf(d, k) = LastWins(s.top_products)

\* C16: when two save_summary calls overlap in time, each returns the key of
\* the header it inserted itself, the two keys differ, and each call's
\* line-items are attached to its own header: at the return of a call, its
\* key is that of the header row it wrote, new to the store, and differs from
\* the key of every save committed while the call was under way and of every
\* key another caller holds, and each of these headers owns its own save's
\* line-items.
C16_OverlappingSavesKeepApart ==
    [][\A p \in Callers :
          SaveSucceeds(p) =>
              LET k == ret'[p].key
              IN  /\ k = local[p].summary_id
                  /\ k \notin RowIds(Headers(db))
                  /\ OwnHeaderAndItems(db', k, local[p].summary, local[p].created_at)
                  /\ \A i \in OverlappingSaves(p) :
                         /\ log[i].id # k
                         /\ OwnHeaderAndItems(db', log[i].id, log[i].summary,
                                              log[i].created_at)
                  /\ \A q \in Callers \ {p} :
                         pc[q] = "idle" /\ ret[q].kind = "key" =>
                             /\ ret'[q].key = ret[q].key
                             /\ ret[q].key # k
                             /\ OwnHeaderAndItems(db', ret[q].key, local[q].summary,
                                                  local[q].created_at)]_vars

\* Caller q started its save before caller p's save was committed; p has
\* returned its key, and q, holding another key with its own line-items
\* written under it, is about to return.
C16_Witness ==
    \E p, q \in Callers :
        /\ p # q
        /\ pc[p] = "idle"
        /\ ret[p].kind = "key"
        /\ log # <<>>
        /\ log[Len(log)].id = ret[p].key
        /\ ItemsOf(db, ret[p].key) # {}
        /\ pc[q] = "save_commit"
        /\ Len(log) \in OverlappingSaves(q)
        /\ local[q].summary_id # ret[p].key
        /\ ItemsOf(txn[q], local[q].summary_id) # {}
        /\ ItemsOf(txn[q], local[q].summary_id) # ItemsOf(db, ret[p].key)

\* ---------------------------------------------------------------------- C17
\* Every line-item row of store d references a header row of d.
ReferencesHold(d) == \A r \in Items(d) : r.summary_id \in RowIds(Headers(d))

\* C17: referential integrity.  In every state reached by initialize and
\* save_summary calls, successful or failed, every stored line-item
\* references an existing header; so does every line-item a save under way
\* has written in its transaction.
C17_ReferentialIntegrity ==
    /\ ReferencesHold(db)
    /\ \A c \in DOMAIN txn : ReferencesHold(txn[c])

\* A save has failed after writing line-items, a save has succeeded, and
\* the store holds line-items.
C17_Witness ==
    \E p \in Callers :
        /\ pc[p] = "idle"
        /\ ret[p] = Ret("save_summary", "error", 0, <<>>)
        /\ local[p].summary_id > 0
        /\ local[p].summary.top_products # <<>>
        /\ Items(db) # {}
        /\ local[p].summary_id \notin RowIds(Headers(db))

\* ---------------------------------------------------------------------- C18
\* The greatest start date stored in d, as ISO text.
GreatestStart(d) ==
    CHOOSE st \in {r.start_date : r \in Headers(d)} :
        \A r \in Headers(d) : ~TextLess(st, r.start_date)

\* Caller p holds the result of fetch_recent_summaries(1) and caller q that
\* of fetch_by_start_date(d), d the greatest stored start date, and the
\* store answers the header SELECT of each as it did during the call.
SameStoreReads(p, q) ==
    /\ Headers(db) # {}
    /\ pc[p] = "idle" /\ RecentList(p) /\ local[p].limit = 1
    /\ pc[q] = "idle" /\ ret[q].op = "fetch_by_start_date"
    /\ local[q].start = GreatestStart(db)
    /\ SelectRecent(db, 1) = local[p].rows
    /\ SelectByStartDate(db, local[q].start) = local[q].rows

\* C18: on a store with at least one header, the single record
\* fetch_recent_summaries(1) returns is the record fetch_by_start_date(d)
\* returns for d the greatest stored start date: the same key, the same
\* header fields and the same line-items, by non-increasing revenue in both.
C18_RecentIsLatestByStartDate ==
    \A p, q \in Callers :
        SameStoreReads(p, q) =>
            /\ Len(ret[p].records) = 1
            /\ ret[q].kind = "record"
            /\ LET a == ret[p].records[1]
                   b == ret[q].records[1]
               IN  /\ a.id = b.id
                   /\ [a EXCEPT !.products = <<>>] = [b EXCEPT !.products = <<>>]
                   /\ Range(a.products) = Range(b.products)
                   /\ Len(a.products) = Len(b.products)
                   /\ RevenueDescending(a.products)
                   /\ RevenueDescending(b.products)

\* Two headers carry the greatest start date; the two reads return the one
\* with the higher key and its two line-items.
C18_Witness ==
    \E p, q \in Callers :
        /\ SameStoreReads(p, q)
        /\ Cardinality({r \in Headers(db) : r.start_date = GreatestStart(db)}) = 2
        /\ ret[q].kind = "record"
        /\ ret[p].records[1].id = 2
        /\ Len(ret[p].records[1].products) = 2
        /\ ret[p].records = ret[q].records
====

